---- MODULE Spec2Model ----
(***************************************************************************)
(* A model of the shopcart backend: the cart / coupon / checkout handlers  *)
(* of routes/cart.py and the session handlers of routes/auth.py, over the  *)
(* four document collections of database.py.                               *)
(*                                                                         *)
(* A handler is a coroutine: it runs without interruption between two      *)
(* awaited store calls, and other handlers may run at each await.  Every   *)
(* store call is one atomic action here, together with the handler code    *)
(* that runs up to the next store call.  A handler that performs a single  *)
(* store call on mutable data is a single action.                          *)
(*                                                                         *)
(* The collections are sequences of documents in insertion order: no       *)
(* unique index is declared anywhere in the code, so a collection may hold *)
(* several documents with the same key.  find_one / update_one /           *)
(* delete_one act on the first document that matches the filter.           *)
(***************************************************************************)
EXTENDS Integers, Sequences, FiniteSets, Bags, TLC

VARIABLES
    users,       \* users_collection : Seq of user documents
    carts,       \* cart_collection  : Seq of cart documents
    orders,      \* orders_collection: Seq of order documents
    now,         \* wall clock, whole seconds (what a JWT "exp" is measured in)
    order_time,  \* the instant of the latest clock read: the utcnow() of a
                 \* checkout, or the ObjectId generated for an inserted cart
    reqs,        \* handlers suspended at a store call, with their local variables
    resp,        \* the response most recently sent to a client
    started,     \* number of requests admitted so far
    issued,      \* refresh / access tokens that a response has handed to a client
    spent,       \* history: refresh tokens a successful /refresh has exchanged
    superseded,  \* history: refresh tokens a later successful /login has replaced
    logged_out   \* history: users whose last session write was a /logout

vars == <<users, carts, orders, now, order_time, reqs, resp, started,
          issued, spent, superseded, logged_out>>

(***************************************************************************)
(* Bounds of the model.                                                    *)
(***************************************************************************)
MaxRequests == 4   \* requests admitted in one behaviour
MaxInFlight == 2   \* handlers suspended at the same time
MaxQty      == 1   \* largest quantity a request carries
MaxAuthRequests == 5   \* session requests admitted in one behaviour
MaxTicks    == 2   \* clock advances in one behaviour

(***************************************************************************)
(* Input domains.                                                          *)
(***************************************************************************)
Emails     == {"u1", "u2"}
\* "p1", "p2": ids of catalog products.  "gone": a well-formed ObjectId that
\* no product has.  "bad": a string that is not an ObjectId at all
\* (AddToCartRequest.product_id is any str).
ProductIds == {"p1", "p2", "gone", "bad"}
Quantities == (0 - 1) .. MaxQty
CodeInputs == {"save10", "BIGSALE", "bogus"}

NoCoupon == "None"     \* the Python None of cart.get("applied_coupon")

(***************************************************************************)
(* The catalog (products_collection), read-only for the cart handlers.     *)
(* Prices are integer cents.                                               *)
(***************************************************************************)
WellFormedIds == {"p1", "p2", "gone"}
CatalogIds    == {"p1", "p2"}
Price(p)      == IF p = "p1" THEN 5000 ELSE 1240

\* COUPONS: code -> discount rate, in percent.
CouponCodes  == {"SAVE10", "BIGSALE", "FREEME"}
COUPONS(c)   == IF c = "SAVE10" THEN 10 ELSE IF c = "BIGSALE" THEN 25 ELSE 100

\* COUPONS.get(coupon, 0)
CouponRate(c) == IF c \in CouponCodes THEN COUPONS(c) ELSE 0

\* str.upper() on the code inputs.
Upper(s) ==
    CASE s = "save10" -> "SAVE10"
      [] s = "FreeMe" -> "FREEME"
      [] s = "bogus"  -> "BOGUS"
      [] OTHER        -> s

(***************************************************************************)
(* Store primitives.                                                       *)
(***************************************************************************)
\* cart_collection.find_one({"user_email": u}): index of the first document
\* that matches, 0 if none.
FindCart(cs, u) ==
    IF \E i \in 1..Len(cs) : cs[i].user_email = u
    THEN CHOOSE i \in 1..Len(cs) :
            /\ cs[i].user_email = u
            /\ \A j \in 1..(i - 1) : cs[j].user_email # u
    ELSE 0

HasCart(cs, u) == FindCart(cs, u) # 0

\* The document find_one returns; only used where HasCart holds.
CartOf(cs, u) == cs[FindCart(cs, u)]

\* Mutant: the items update replaces the document, dropping its coupon.
SetItems_DropsCoupon(cs, u, its) ==
    IF HasCart(cs, u)
    THEN [cs EXCEPT ![FindCart(cs, u)].items = its,
                    ![FindCart(cs, u)].applied_coupon = NoCoupon]
    ELSE cs

\* cart_collection.update_one({"user_email": u}, {"$set": {"items": its}})
\* No upsert: a no-op when no document matches.
SetItems(cs, u, its) ==
    IF HasCart(cs, u)
    THEN [cs EXCEPT ![FindCart(cs, u)].items = its]
    ELSE cs

\* Mutant: the coupon update is an upsert, creating the cart document.
SetCoupon_Upsert(cs, u, c) ==
    IF HasCart(cs, u)
    THEN [cs EXCEPT ![FindCart(cs, u)].applied_coupon = c]
    ELSE Append(cs, [id |-> 0, user_email |-> u, items |-> <<>>,
                     applied_coupon |-> c])

\* cart_collection.update_one({"user_email": u}, {"$set": {"applied_coupon": c}})
SetCoupon(cs, u, c) ==
    IF HasCart(cs, u)
    THEN [cs EXCEPT ![FindCart(cs, u)].applied_coupon = c]
    ELSE cs

\* cart_collection.delete_one({"user_email": u})
DeleteCart(cs, u) ==
    IF HasCart(cs, u)
    THEN LET k == FindCart(cs, u)
         IN  SubSeq(cs, 1, k - 1) \o SubSeq(cs, k + 1, Len(cs))
    ELSE cs

\* cart_collection.insert_one({"user_email": u, "items": its}); the new
\* document has no "applied_coupon" field.  id is the "_id" the driver
\* generates for it, different for every insert.
InsertCart(cs, u, its, id) ==
    Append(cs, [id |-> id, user_email |-> u, items |-> its,
                applied_coupon |-> NoCoupon])

(***************************************************************************)
(* Item-list computations of the handlers.                                 *)
(***************************************************************************)
Line(p, q) == [product_id |-> p, quantity |-> q]

HasLine(its, p) == \E i \in 1..Len(its) : its[i].product_id = p

\* First index of a line for p; only used where HasLine holds.
LineIndex(its, p) ==
    CHOOSE i \in 1..Len(its) :
        /\ its[i].product_id = p
        /\ \A j \in 1..(i - 1) : its[j].product_id # p

\* Mutant: every add appends a line, also when the product has one.
AddItems_AlwaysAppend(its, p, q) == Append(its, Line(p, q))

\* Mutant: an add to an existing line overwrites its quantity.
AddItems_Overwrite(its, p, q) ==
    IF HasLine(its, p)
    THEN [its EXCEPT ![LineIndex(its, p)].quantity = q]
    ELSE Append(its, Line(p, q))

\* add_to_cart, the else branch: increment the first line for p and stop,
\* or append a new line.
AddItems(its, p, q) ==
    IF HasLine(its, p)
    THEN [its EXCEPT ![LineIndex(its, p)].quantity = @ + q]
    ELSE Append(its, Line(p, q))

\* Mutant: a quantity of 0 is stored instead of removing the line.
RECURSIVE UpdateItems_KeepsZero(_, _, _)
UpdateItems_KeepsZero(its, p, q) ==
    IF its = <<>> THEN <<>>
    ELSE LET h == Head(its)
             rest == UpdateItems_KeepsZero(Tail(its), p, q)
         IN  IF h.product_id = p
             THEN <<Line(p, q)>> \o rest
             ELSE <<h>> \o rest

\* update_cart_item: rebuild the list; every line for p is replaced by one
\* with the new quantity, or left out when the quantity is 0.
RECURSIVE UpdateItems(_, _, _)
UpdateItems(its, p, q) ==
    IF its = <<>> THEN <<>>
    ELSE LET h == Head(its)
             rest == UpdateItems(Tail(its), p, q)
         IN  IF h.product_id = p
             THEN IF q > 0 THEN <<Line(p, q)>> \o rest ELSE rest
             ELSE <<h>> \o rest

\* remove_from_cart: [item for item in items if item.product_id != p]
RECURSIVE RemoveItems(_, _)
RemoveItems(its, p) ==
    IF its = <<>> THEN <<>>
    ELSE LET h == Head(its)
             rest == RemoveItems(Tail(its), p)
         IN  IF h.product_id = p THEN rest ELSE <<h>> \o rest

(***************************************************************************)
(* Enrichment and totals.  Amounts are integer cents.  Every catalog price *)
(* is a multiple of 20 cents, so total * rate is a whole number of cents   *)
(* for each rate of COUPONS and round(x, 2) returns its argument.          *)
(***************************************************************************)
\* ObjectId(item["product_id"]) raises InvalidId for some line.
RaisesInvalidId(its) ==
    \E i \in 1..Len(its) : its[i].product_id \notin WellFormedIds

\* The loop of get_cart / checkout over the lines whose product resolves.
RECURSIVE Enrich(_)
Enrich(its) ==
    IF its = <<>> THEN <<>>
    ELSE LET h == Head(its)
         IN  IF h.product_id \in CatalogIds
             THEN <<[product_id |-> h.product_id,
                     quantity   |-> h.quantity,
                     price      |-> Price(h.product_id),
                     subtotal   |-> h.quantity * Price(h.product_id)]>>
                  \o Enrich(Tail(its))
             ELSE Enrich(Tail(its))

RECURSIVE SumSubtotals(_)
SumSubtotals(es) ==
    IF es = <<>> THEN 0 ELSE Head(es).subtotal + SumSubtotals(Tail(es))

\* round(x, 2) of an amount given in hundredths of a cent; ties go to the
\* even cent.
Round2(x) ==
    LET c == x \div 100
        r == x % 100
    IN  IF r < 50 THEN c
        ELSE IF r > 50 THEN c + 1
        ELSE IF c % 2 = 0 THEN c ELSE c + 1

EmptyView ==
    [items |-> <<>>, coupon |-> NoCoupon, discount_total |-> 0, final_total |-> 0]

\* get_cart, lines 42-69: the view of a cart document that has items.
ViewOf(cart) ==
    LET enriched == Enrich(cart.items)
        total    == SumSubtotals(enriched)
        coupon   == cart.applied_coupon
        discount == IF coupon # NoCoupon THEN CouponRate(coupon) ELSE 0
        discount_amount == total * discount          \* hundredths of a cent
        final_total     == total * 100 - discount_amount
    IN  [items          |-> enriched,
         coupon         |-> coupon,
         discount_total |-> Round2(discount_amount),
         final_total    |-> Round2(final_total)]

NoOrder ==
    [user_email |-> "None", items |-> <<>>, total |-> 0,
     discount_code |-> NoCoupon, final_total |-> 0, created_at |-> 0,
     cart_id |-> 0]

\* checkout, lines 190-217: the order built from a cart document.  cart_id
\* is history, not a field of the stored order: the "_id" of the cart document
\* the handler read.
OrderOf(cart, u, t) ==
    LET enriched == Enrich(cart.items)
        total    == SumSubtotals(enriched)
        coupon   == cart.applied_coupon
        discount == CouponRate(coupon)
        discount_amount == total * discount
        final_total     == total * 100 - discount_amount
    IN  [user_email    |-> u,
         items         |-> enriched,
         total         |-> Round2(total * 100),
         discount_code |-> coupon,
         final_total   |-> Round2(final_total),
         created_at    |-> t,
         cart_id       |-> cart.id]

\* orders_collection.find({"user_email": u}).sort("created_at", -1)
RECURSIVE SortDesc(_)
SortDesc(os) ==
    IF os = {} THEN <<>>
    ELSE LET m == CHOOSE o \in os : \A x \in os : x.created_at <= o.created_at
         IN  <<m>> \o SortDesc(os \ {m})

OrdersOf(os, u) ==
    SortDesc({os[i] : i \in {j \in 1..Len(os) : os[j].user_email = u}})

(***************************************************************************)
(* Requests and responses.                                                 *)
(***************************************************************************)
\* A signed token: its subject, its expiry (whole seconds: jwt.encode turns
\* the datetime into timegm(...)) and the secret that signed it.  Encoding is
\* deterministic, so two tokens with the same claims and secret are the same
\* string.  NoToken is the None of a user document's "refresh_token".
NoToken == [sub |-> "None", exp |-> 0, key |-> "None"]
NoHash  == <<"None", "None">>

\* A suspended handler: its position and its local variables.  read is the
\* items list of the cart document the handler read, items the list it goes
\* on to store.  note is history: what was true of the presented token when
\* the handler read.
AnyReq(kind, pc, u, p, q, read, its, ord, tok, hpw, note) ==
    [kind |-> kind, pc |-> pc, user |-> u, product_id |-> p, quantity |-> q,
     read |-> read, items |-> its, order |-> ord, token |-> tok,
     hashed_pw |-> hpw, note |-> note]

Req(kind, pc, u, p, q, its, ord, tok) ==
    AnyReq(kind, pc, u, p, q, its, its, ord, tok, NoHash, {})

\* A cart mutation (add, update, remove) suspended at its store write.
MutReq(kind, pc, u, p, q, read, its) ==
    AnyReq(kind, pc, u, p, q, read, its, NoOrder, NoToken, NoHash, {})

AuthReq(kind, pc, u, tok, hpw, note) ==
    AnyReq(kind, pc, u, "None", 0, <<>>, <<>>, NoOrder, tok, hpw, note)

\* A response: the handler that sent it, the caller, the status code and the
\* parts of the body the properties read.
AnyResp(kind, u, status, view, os, tok, note) ==
    [kind |-> kind, user |-> u, status |-> status, view |-> view,
     orders |-> os, refresh_token |-> tok, note |-> note]

Resp(kind, u, p, q, status, view, os, tok) ==
    AnyResp(kind, u, status, view, os, tok, {})

Plain(kind, u, p, q, status) ==
    Resp(kind, u, p, q, status, EmptyView, <<>>, NoToken)

AuthResp(kind, u, status, tok, note) ==
    AnyResp(kind, u, status, EmptyView, <<>>, tok, note)

\* The 200 of a cart mutation.  Its note is history: "stale" when the write
\* replaced a stored items list that was no longer the one the handler read.
MutResp(cs, r) ==
    AnyResp(r.kind, r.user, 200, EmptyView, <<>>, NoToken,
            IF r.pc = "update" /\ HasCart(cs, r.user)
                  /\ CartOf(cs, r.user).items # r.read
            THEN {"stale"} ELSE {})

\* A request is admitted while a worker is free.
CanStart == started < MaxRequests /\ BagCardinality(reqs) < MaxInFlight
Admit    == started' = started + 1

Suspend(r) == reqs (+) SetToBag({r})
Resume(r)  == reqs (-) SetToBag({r})
InFlight   == BagToSet(reqs)

AuthUnchanged == UNCHANGED <<users, now, issued, spent, superseded, logged_out>>

Init ==
    /\ users = <<>>
    /\ carts = <<>>
    /\ orders = <<>>
    /\ now = 0
    /\ order_time = 0
    /\ reqs = EmptyBag
    /\ resp = Plain("none", "None", "None", 0, 0)
    /\ started = 0
    /\ issued = {}
    /\ spent = {}
    /\ superseded = {}
    /\ logged_out = {}

(***************************************************************************)
(* routes/cart.py.  current_user is the identity get_current_user resolved *)
(* for the request; the handlers below start at their first line.          *)
(***************************************************************************)
\* GET /cart
GetCartResponse(cs, u) ==
    IF ~HasCart(cs, u) \/ CartOf(cs, u).items = <<>>
    THEN Resp("view", u, "None", 0, 200, EmptyView, <<>>, NoToken)
    ELSE IF RaisesInvalidId(CartOf(cs, u).items)
    THEN Plain("view", u, "None", 0, 500)
    ELSE Resp("view", u, "None", 0, 200, ViewOf(CartOf(cs, u)), <<>>, NoToken)

\* Mutant: the view writes the cart back without the lines it dropped.
get_cart_PrunesStore(u) ==
    /\ CanStart
    /\ Admit
    /\ resp' = GetCartResponse(carts, u)
    /\ carts' = IF HasCart(carts, u)
                THEN SetItems(carts, u,
                        SelectSeq(CartOf(carts, u).items,
                                  LAMBDA l : l.product_id \in CatalogIds))
                ELSE carts
    /\ UNCHANGED <<orders, order_time, reqs>>
    /\ AuthUnchanged

get_cart(u) ==
    /\ CanStart
    /\ Admit
    /\ resp' = GetCartResponse(carts, u)
    /\ UNCHANGED <<carts, orders, order_time, reqs>>
    /\ AuthUnchanged

\* POST /cart/add, up to the insert_one / update_one call.
add_to_cart(u, p, q) ==
    /\ CanStart
    /\ Admit
    /\ IF q < 1
       THEN /\ resp' = Plain("add", u, p, q, 400)
            /\ UNCHANGED reqs
       ELSE /\ reqs' = Suspend(
                  IF ~HasCart(carts, u)
                  THEN MutReq("add", "insert", u, p, q, <<>>, <<Line(p, q)>>)
                  ELSE MutReq("add", "update", u, p, q, CartOf(carts, u).items,
                              AddItems(CartOf(carts, u).items, p, q)))
            /\ UNCHANGED resp
    /\ UNCHANGED <<carts, orders, order_time>>
    /\ AuthUnchanged

\* POST /cart/add, the store write and the return.
add_to_cart_write(r) ==
    /\ r \in InFlight /\ r.kind = "add"
    /\ IF r.pc = "insert"
       THEN /\ order_time' = order_time + 1
            /\ carts' = InsertCart(carts, r.user, r.items, order_time + 1)
       ELSE /\ carts' = SetItems(carts, r.user, r.items)
            /\ UNCHANGED order_time
    /\ reqs' = Resume(r)
    /\ resp' = MutResp(carts, r)
    /\ UNCHANGED <<orders, started>>
    /\ AuthUnchanged

\* Mutant: update does not test that the product is a line of the cart.
update_cart_item_NoLineCheck(u, p, q) ==
    /\ CanStart
    /\ Admit
    /\ IF q < 0
       THEN /\ resp' = Plain("update", u, p, q, 400)
            /\ UNCHANGED reqs
       ELSE IF ~HasCart(carts, u)
       THEN /\ resp' = Plain("update", u, p, q, 404)
            /\ UNCHANGED reqs
       ELSE /\ reqs' = Suspend(
                  MutReq("update", "update", u, p, q, CartOf(carts, u).items,
                         UpdateItems(CartOf(carts, u).items, p, q)))
            /\ UNCHANGED resp
    /\ UNCHANGED <<carts, orders, order_time>>
    /\ AuthUnchanged

\* PUT /cart/update, up to the update_one call.
update_cart_item(u, p, q) ==
    /\ CanStart
    /\ Admit
    /\ IF q < 0
       THEN /\ resp' = Plain("update", u, p, q, 400)
            /\ UNCHANGED reqs
       ELSE IF ~HasCart(carts, u) \/ ~HasLine(CartOf(carts, u).items, p)
       THEN /\ resp' = Plain("update", u, p, q, 404)
            /\ UNCHANGED reqs
       ELSE /\ reqs' = Suspend(
                  MutReq("update", "update", u, p, q, CartOf(carts, u).items,
                         UpdateItems(CartOf(carts, u).items, p, q)))
            /\ UNCHANGED resp
    /\ UNCHANGED <<carts, orders, order_time>>
    /\ AuthUnchanged

\* Mutant: the update is written only when the stored items list is still
\* the one the handler read (an optimistic concurrency check).
update_cart_item_write_IfUnchanged(r) ==
    /\ r \in InFlight /\ r.kind = "update"
    /\ IF HasCart(carts, r.user) /\ CartOf(carts, r.user).items # r.read
       THEN /\ resp' = Plain("update", r.user, r.product_id, r.quantity, 409)
            /\ UNCHANGED carts
       ELSE /\ resp' = MutResp(carts, r)
            /\ carts' = SetItems(carts, r.user, r.items)
    /\ reqs' = Resume(r)
    /\ UNCHANGED <<orders, order_time, started>>
    /\ AuthUnchanged

\* PUT /cart/update, the store write and the return.
update_cart_item_write(r) ==
    /\ r \in InFlight /\ r.kind = "update"
    /\ carts' = SetItems(carts, r.user, r.items)
    /\ reqs' = Resume(r)
    /\ resp' = MutResp(carts, r)
    /\ UNCHANGED <<orders, order_time, started>>
    /\ AuthUnchanged

\* DELETE /cart/remove, up to the update_one call.
remove_from_cart(u, p) ==
    /\ CanStart
    /\ Admit
    /\ IF ~HasCart(carts, u) \/ CartOf(carts, u).items = <<>>
       THEN /\ resp' = Plain("remove", u, p, 0, 404)
            /\ UNCHANGED reqs
       ELSE IF Len(RemoveItems(CartOf(carts, u).items, p)) = Len(CartOf(carts, u).items)
       THEN /\ resp' = Plain("remove", u, p, 0, 404)
            /\ UNCHANGED reqs
       ELSE /\ reqs' = Suspend(
                  MutReq("remove", "update", u, p, 0, CartOf(carts, u).items,
                         RemoveItems(CartOf(carts, u).items, p)))
            /\ UNCHANGED resp
    /\ UNCHANGED <<carts, orders, order_time>>
    /\ AuthUnchanged

\* DELETE /cart/remove, the store write and the return.
remove_from_cart_write(r) ==
    /\ r \in InFlight /\ r.kind = "remove"
    /\ carts' = SetItems(carts, r.user, r.items)
    /\ reqs' = Resume(r)
    /\ resp' = MutResp(carts, r)
    /\ UNCHANGED <<orders, order_time, started>>
    /\ AuthUnchanged

\* Mutant: every code is taken as a known coupon.
CouponKnown_AnyCode(code) == TRUE

\* apply_coupon, line 169: code in COUPONS
CouponKnown(code) == code \in CouponCodes

\* POST /cart/coupon: one store call, no read before it.
apply_coupon(u, c) ==
    /\ CanStart
    /\ Admit
    /\ IF ~CouponKnown(Upper(c))
       THEN /\ resp' = Plain("coupon", u, c, 0, 400)
            /\ UNCHANGED carts
       ELSE /\ carts' = SetCoupon(carts, u, Upper(c))
            /\ resp' = Plain("coupon", u, c, 0, 200)
    /\ UNCHANGED <<orders, order_time, reqs>>
    /\ AuthUnchanged

\* Mutant: checkout tests only that a cart document exists.
CheckoutCartEmpty_OnlyAbsent(cs, u) == ~HasCart(cs, u)

\* checkout, line 187: not cart or not cart.get("items")
CheckoutCartEmpty(cs, u) == ~HasCart(cs, u) \/ CartOf(cs, u).items = <<>>

\* POST /checkout, up to the insert_one call: the cart read, the product
\* reads (the catalog does not change) and the order document with its
\* created_at.  Each utcnow() read is later than the one before it.
checkout(u) ==
    /\ CanStart
    /\ Admit
    /\ IF CheckoutCartEmpty(carts, u)
       THEN /\ resp' = Plain("checkout", u, "None", 0, 400)
            /\ UNCHANGED <<reqs, order_time>>
       ELSE IF RaisesInvalidId(CartOf(carts, u).items)
       THEN /\ resp' = Plain("checkout", u, "None", 0, 500)
            /\ UNCHANGED <<reqs, order_time>>
       ELSE /\ order_time' = order_time + 1
            /\ reqs' = Suspend(
                  Req("checkout", "insert", u, "None", 0, CartOf(carts, u).items,
                      OrderOf(CartOf(carts, u), u, order_time + 1), NoToken))
            /\ UNCHANGED resp
    /\ UNCHANGED <<carts, orders>>
    /\ AuthUnchanged

\* Mutant: the order insert replaces the order the user already has.
InsertOrder_ReplacesUsers(os, o) ==
    IF \E i \in 1..Len(os) : os[i].user_email = o.user_email
    THEN [os EXCEPT ![CHOOSE i \in 1..Len(os) : os[i].user_email = o.user_email] = o]
    ELSE Append(os, o)

\* orders_collection.insert_one(order)
InsertOrder(os, o) == Append(os, o)

\* Mutant: the order insert and the cart delete are one transaction.
checkout_insert_Transactional(r) ==
    /\ r \in InFlight /\ r.kind = "checkout" /\ r.pc = "insert"
    /\ orders' = InsertOrder(orders, r.order)
    /\ carts' = DeleteCart(carts, r.user)
    /\ reqs' = Resume(r)
    /\ resp' = Resp("checkout", r.user, "None", 0, 200, EmptyView, <<r.order>>, NoToken)
    /\ UNCHANGED <<order_time, started>>
    /\ AuthUnchanged

\* POST /checkout: orders_collection.insert_one(order)
checkout_insert(r) ==
    /\ r \in InFlight /\ r.kind = "checkout" /\ r.pc = "insert"
    /\ orders' = InsertOrder(orders, r.order)
    /\ reqs' = Resume(r) (+) SetToBag({[r EXCEPT !.pc = "delete"]})
    /\ UNCHANGED <<carts, order_time, resp, started>>
    /\ AuthUnchanged

\* POST /checkout: cart_collection.delete_one(...) and the return.
checkout_delete(r) ==
    /\ r \in InFlight /\ r.kind = "checkout" /\ r.pc = "delete"
    /\ carts' = DeleteCart(carts, r.user)
    /\ reqs' = Resume(r)
    /\ resp' = Resp("checkout", r.user, "None", 0, 200, EmptyView, <<r.order>>, NoToken)
    /\ UNCHANGED <<orders, order_time, started>>
    /\ AuthUnchanged

\* GET /orders
GetOrdersResponse(os, u) ==
    Resp("orders", u, "None", 0, 200, EmptyView, OrdersOf(os, u), NoToken)

get_orders(u) ==
    /\ CanStart
    /\ Admit
    /\ resp' = GetOrdersResponse(orders, u)
    /\ UNCHANGED <<carts, orders, order_time, reqs>>
    /\ AuthUnchanged

(***************************************************************************)
(* routes/auth.py.                                                         *)
(***************************************************************************)
Passwords == {"pw1", "pw2"}

ACCESS_EXPIRE_MINUTES == 360
REFRESH_EXPIRE_DAYS   == 7
SecondsPerMinute == 60
SecondsPerDay    == 86400

\* pwd_context.hash / pwd_context.verify: the hash is not the password, and
\* verifies exactly the password it was made from.
hash_password(pw) == <<"bcrypt", pw>>
verify_password(plain, hashed) == hashed[1] = "bcrypt" /\ hashed[2] = plain

\* jwt.encode({"sub": e, "exp": utcnow() + ...}, SECRET)
create_access_token(e, t) ==
    [sub |-> e, exp |-> t + ACCESS_EXPIRE_MINUTES * SecondsPerMinute, key |-> "access"]
create_refresh_token(e, t) ==
    [sub |-> e, exp |-> t + REFRESH_EXPIRE_DAYS * SecondsPerDay, key |-> "refresh"]

\* jwt.decode(token, SECRET): the signature must be SECRET's and the token
\* must not be past its expiry (exp < now raises).
Decodes(tok, key, t) == tok.key = key /\ ~(tok.exp < t)

\* users_collection.find_one({"email": e}): index of the first document that
\* matches, 0 if none.
FindUser(us, e) ==
    IF \E i \in 1..Len(us) : us[i].email = e
    THEN CHOOSE i \in 1..Len(us) :
            /\ us[i].email = e
            /\ \A j \in 1..(i - 1) : us[j].email # e
    ELSE 0
HasUser(us, e)  == FindUser(us, e) # 0
UserOf(us, e)   == us[FindUser(us, e)]

\* users_collection.update_one({"email": e}, {"$set": {"refresh_token": tok}})
SetRefreshToken(us, e, tok) ==
    IF HasUser(us, e)
    THEN [us EXCEPT ![FindUser(us, e)].refresh_token = tok]
    ELSE us

\* user.get("refresh_token") of the document find_one returns.
StoredToken(us, e) == IF HasUser(us, e) THEN UserOf(us, e).refresh_token ELSE NoToken

CanStartAuth == started < MaxAuthRequests /\ BagCardinality(reqs) < MaxInFlight

CartUnchanged == UNCHANGED <<carts, orders, order_time>>

\* POST /signup, up to the insert_one call.
signup(e, pw) ==
    /\ CanStartAuth
    /\ Admit
    /\ IF HasUser(users, e)
       THEN /\ resp' = AuthResp("signup", e, 400, NoToken, {})
            /\ UNCHANGED reqs
       ELSE /\ reqs' = Suspend(AuthReq("signup", "insert", e, NoToken, hash_password(pw), {}))
            /\ UNCHANGED resp
    /\ UNCHANGED <<users, now, issued, spent, superseded, logged_out>>
    /\ CartUnchanged

\* POST /signup, the insert_one call and the return.
signup_insert(r) ==
    /\ r \in InFlight /\ r.kind = "signup"
    /\ users' = Append(users, [email |-> r.user, hashed_password |-> r.hashed_pw,
                               refresh_token |-> NoToken])
    /\ reqs' = Resume(r)
    /\ resp' = AuthResp("signup", r.user, 200, NoToken, {})
    /\ UNCHANGED <<now, issued, spent, superseded, logged_out, started>>
    /\ CartUnchanged

\* POST /login, up to the update_one call: the user read and the password check.
login(e, pw) ==
    /\ CanStartAuth
    /\ Admit
    /\ IF ~HasUser(users, e) \/ ~verify_password(pw, UserOf(users, e).hashed_password)
       THEN /\ resp' = AuthResp("login", e, 401, NoToken, {})
            /\ UNCHANGED reqs
       ELSE /\ reqs' = Suspend(AuthReq("login", "update", e, NoToken, NoHash, {}))
            /\ UNCHANGED resp
    /\ UNCHANGED <<users, now, issued, spent, superseded, logged_out>>
    /\ CartUnchanged

\* POST /login: the two tokens, the update_one call and the return.
login_update(r) ==
    /\ r \in InFlight /\ r.kind = "login"
    /\ LET access_token  == create_access_token(r.user, now)
           refresh_token == create_refresh_token(r.user, now)
       IN  /\ users' = SetRefreshToken(users, r.user, refresh_token)
           /\ resp' = AuthResp("login", r.user, 200, refresh_token, {})
           /\ issued' = issued \cup {access_token, refresh_token}
    /\ superseded' = superseded \cup ({StoredToken(users, r.user)} \ {NoToken})
    /\ logged_out' = logged_out \ {r.user}
    /\ reqs' = Resume(r)
    /\ UNCHANGED <<now, spent, started>>
    /\ CartUnchanged

\* What is true of a presented refresh token when /refresh reads the user.
NoteOf(tok) ==
    (IF tok \in spent THEN {"spent"} ELSE {})
    \cup (IF tok \in superseded THEN {"superseded"} ELSE {})
    \cup (IF tok.sub \in logged_out THEN {"logged_out"} ELSE {})

\* POST /refresh, up to the update_one call: decode, user read, comparison.
refresh_token(tok) ==
    /\ CanStartAuth
    /\ Admit
    /\ IF ~Decodes(tok, "refresh", now)
       THEN /\ resp' = AuthResp("refresh", tok.sub, 401, NoToken, NoteOf(tok))
            /\ UNCHANGED reqs
       ELSE IF ~HasUser(users, tok.sub) \/ StoredToken(users, tok.sub) # tok
       THEN /\ resp' = AuthResp("refresh", tok.sub, 403, NoToken, NoteOf(tok))
            /\ UNCHANGED reqs
       ELSE /\ reqs' = Suspend(AuthReq("refresh", "update", tok.sub, tok, NoHash, NoteOf(tok)))
            /\ UNCHANGED resp
    /\ UNCHANGED <<users, now, issued, spent, superseded, logged_out>>
    /\ CartUnchanged

\* POST /refresh: the new tokens, the update_one call and the return.
refresh_token_update(r) ==
    /\ r \in InFlight /\ r.kind = "refresh"
    /\ LET new_access  == create_access_token(r.user, now)
           new_refresh == create_refresh_token(r.user, now)
       IN  /\ users' = SetRefreshToken(users, r.user, new_refresh)
           /\ resp' = AuthResp("refresh", r.user, 200, new_refresh, r.note)
           /\ issued' = issued \cup {new_access, new_refresh}
    /\ spent' = spent \cup {r.token}
    /\ reqs' = Resume(r)
    /\ UNCHANGED <<now, superseded, logged_out, started>>
    /\ CartUnchanged

\* POST /logout, up to the update_one call: get_current_user.
logout(tok) ==
    /\ CanStartAuth
    /\ Admit
    /\ IF ~Decodes(tok, "access", now)
       THEN /\ resp' = AuthResp("logout", tok.sub, 401, NoToken, {})
            /\ UNCHANGED reqs
       ELSE IF ~HasUser(users, tok.sub)
       THEN /\ resp' = AuthResp("logout", tok.sub, 404, NoToken, {})
            /\ UNCHANGED reqs
       ELSE /\ reqs' = Suspend(AuthReq("logout", "update", tok.sub, tok, NoHash, {}))
            /\ UNCHANGED resp
    /\ UNCHANGED <<users, now, issued, spent, superseded, logged_out>>
    /\ CartUnchanged

\* POST /logout: the update_one call and the return.
logout_update(r) ==
    /\ r \in InFlight /\ r.kind = "logout"
    /\ users' = SetRefreshToken(users, r.user, NoToken)
    /\ logged_out' = logged_out \cup {r.user}
    /\ resp' = AuthResp("logout", r.user, 200, NoToken, {})
    /\ reqs' = Resume(r)
    /\ UNCHANGED <<now, issued, spent, superseded, started>>
    /\ CartUnchanged

\* The clock advances by a second, or by the lifetime of a refresh token.
Ticks == (now % (REFRESH_EXPIRE_DAYS * SecondsPerDay))
         + (now \div (REFRESH_EXPIRE_DAYS * SecondsPerDay))

Tick(d) ==
    /\ Ticks < MaxTicks
    /\ now' = now + d
    /\ UNCHANGED <<users, carts, orders, order_time, reqs, resp, started,
                   issued, spent, superseded, logged_out>>

AuthNext ==
    \/ \E e \in Emails, pw \in Passwords : signup(e, pw)
    \/ \E r \in InFlight : signup_insert(r)
    \/ \E e \in Emails, pw \in Passwords : login(e, pw)
    \/ \E r \in InFlight : login_update(r)
    \/ \E tok \in issued : refresh_token(tok)
    \/ \E r \in InFlight : refresh_token_update(r)
    \/ \E tok \in issued : logout(tok)
    \/ \E r \in InFlight : logout_update(r)
    \/ \E d \in {1, REFRESH_EXPIRE_DAYS * SecondsPerDay} : Tick(d)

AuthSpec == Init /\ [][AuthNext]_vars

Next ==
    \/ \E u \in Emails : get_cart(u)
    \/ \E u \in Emails, p \in ProductIds, q \in Quantities : add_to_cart(u, p, q)
    \/ \E r \in InFlight : add_to_cart_write(r)
    \/ \E u \in Emails, p \in ProductIds, q \in Quantities : update_cart_item(u, p, q)
    \/ \E r \in InFlight : update_cart_item_write(r)
    \/ \E u \in Emails, p \in ProductIds : remove_from_cart(u, p)
    \/ \E r \in InFlight : remove_from_cart_write(r)
    \/ \E u \in Emails, c \in CodeInputs : apply_coupon(u, c)
    \/ \E u \in Emails : checkout(u)
    \/ \E r \in InFlight : checkout_insert(r)
    \/ \E r \in InFlight : checkout_delete(r)
    \/ \E u \in Emails : get_orders(u)

Spec == Init /\ [][Next]_vars

(***************************************************************************)
(* Properties of the cart handlers, checked under Spec.                    *)
(***************************************************************************)
CartsOfUser(cs, u) == {i \in 1..Len(cs) : cs[i].user_email = u}

\* The request a handler step has just suspended, if any.
Suspended(kind, u) ==
    {x \in BagToSet(reqs') : x.kind = kind /\ x.user = u /\ reqs' = Suspend(x)}

\* C4: a checkout on a cart that has items goes on to insert exactly one
\* order whose final_total is the final_total of the view of the same cart;
\* when it returns, the view of the user's cart is the empty default and the
\* order is the first element of the user's history.
C4_CheckoutCreatesOrderAndClearsCart ==
    [][ /\ \A u \in Emails :
             (checkout(u) /\ HasCart(carts, u) /\ CartOf(carts, u).items # <<>>)
                => \E x \in Suspended("checkout", u) :
                      /\ x.pc = "insert"
                      /\ GetCartResponse(carts, u).status = 200
                      /\ x.order.final_total = GetCartResponse(carts, u).view.final_total
        /\ \A r \in InFlight :
             checkout_insert(r)
                => Cardinality({i \in 1..Len(orders') : orders'[i] = r.order}) = 1
        /\ \A r \in InFlight :
             checkout_delete(r)
                => /\ GetCartResponse(carts', r.user).status = 200
                   /\ GetCartResponse(carts', r.user).view = EmptyView
                   /\ Head(GetOrdersResponse(orders', r.user).orders) = r.order
      ]_vars

\* C5: a checkout for a user with no cart, or with a cart whose items list is
\* empty, answers 400, inserts no order (now or later: the handler stops) and
\* leaves every cart document, coupon included, as it was.
C5_CheckoutOnEmptyCartFails ==
    [][ \A u \in Emails :
          (checkout(u) /\ (CartsOfUser(carts, u) = {}
                           \/ carts[FindCart(carts, u)].items = <<>>))
             => /\ resp'.kind = "checkout" /\ resp'.user = u /\ resp'.status = 400
                /\ orders' = orders
                /\ carts' = carts
                /\ reqs' = reqs
      ]_vars

\* C5 witness: a checkout was answered 400 for a user whose cart is present
\* with no items and with a coupon applied, and no order exists.
C5_Witness ==
    /\ resp.kind = "checkout" /\ resp.status = 400
    /\ HasCart(carts, resp.user)
    /\ CartOf(carts, resp.user).items = <<>>
    /\ CartOf(carts, resp.user).applied_coupon # NoCoupon
    /\ orders = <<>>

\* C6: every stored cart has at most one line per product_id and every line
\* has quantity >= 1.
C6_NoDuplicateLinesPositiveQuantity ==
    \A i \in 1..Len(carts) :
        LET its == carts[i].items
        IN  /\ \A j, k \in 1..Len(its) :
                  its[j].product_id = its[k].product_id => j = k
            /\ \A j \in 1..Len(its) : its[j].quantity >= 1

\* C6 witness: a cart with two lines, one of them incremented by a second
\* add, after an update has been applied.
C6_Witness ==
    /\ resp.kind = "update" /\ resp.status = 200
    /\ \E i \in 1..Len(carts) :
          /\ Len(carts[i].items) = 2
          /\ \E j \in 1..2 : carts[i].items[j].quantity >= 2

\* C7: there is at most one cart document per user_email.
C7_OneCartPerUser ==
    \A u \in Emails : Cardinality(CartsOfUser(carts, u)) <= 1

\* C8: add(p, q) with q >= 1.  From the cart it reads, the handler computes:
\* with no cart, the single line {p, q}, which it inserts as a new cart; with
\* a line for p, the same list with that line's quantity old + q; otherwise
\* the list with {p, q} appended at the end.  Every other line keeps its
\* place and content.  Its write stores exactly that list.
C8_AddIncrementsOrAppends ==
    [][ /\ \A u \in Emails, p \in ProductIds, q \in 1..MaxQty :
             add_to_cart(u, p, q)
                => \E x \in Suspended("add", u) :
                      LET new == x.items
                          old == carts[FindCart(carts, u)].items
                      IN  IF CartsOfUser(carts, u) = {}
                          THEN x.pc = "insert" /\ new = <<Line(p, q)>>
                          ELSE /\ x.pc = "update"
                               /\ \A i \in 1..Len(old) :
                                     /\ new[i].product_id = old[i].product_id
                                     /\ old[i].product_id # p => new[i] = old[i]
                                     /\ old[i].product_id = p
                                           => new[i].quantity = old[i].quantity + q
                               /\ IF \E i \in 1..Len(old) : old[i].product_id = p
                                  THEN Len(new) = Len(old)
                                  ELSE /\ Len(new) = Len(old) + 1
                                       /\ new[Len(new)] = Line(p, q)
        /\ \A r \in InFlight :
             add_to_cart_write(r)
                => /\ resp'.kind = "add" /\ resp'.status = 200
                   /\ r.pc = "insert"
                         => /\ Len(carts') = Len(carts) + 1
                            /\ SubSeq(carts', 1, Len(carts)) = carts
                            /\ carts'[Len(carts')].user_email = r.user
                            /\ carts'[Len(carts')].items = r.items
                   /\ (r.pc = "update" /\ CartsOfUser(carts, r.user) # {})
                         => /\ Len(carts') = Len(carts)
                            /\ carts'[FindCart(carts, r.user)].items = r.items
      ]_vars

\* C8 witness: add(p, 1) twice, with another line added in between, has left
\* a cart whose first line has quantity 2 and whose second line is untouched.
C8_Witness ==
    /\ resp.kind = "add" /\ resp.status = 200
    /\ HasCart(carts, resp.user)
    /\ Len(CartOf(carts, resp.user).items) = 2
    /\ CartOf(carts, resp.user).items[1].quantity = 2
    /\ CartOf(carts, resp.user).items[2].quantity = 1
    /\ Cardinality(CartsOfUser(carts, resp.user)) = 1

\* C9: update(p, q) with q >= 0 on a cart that has a line for p computes, from
\* the cart it reads, the list without that line when q = 0 and the list with
\* that line's quantity equal to q when q > 0; every other line keeps its
\* content and the lines keep their order; its write stores exactly that
\* list.  update(p, q) on a cart with no line for p is answered 404 and
\* writes nothing.
C9_UpdateSetsOrRemoves ==
    [][ /\ \A u \in Emails, p \in ProductIds, q \in 0..MaxQty :
             (update_cart_item(u, p, q) /\ CartsOfUser(carts, u) # {})
                => LET old == carts[FindCart(carts, u)].items
                       at  == {i \in 1..Len(old) : old[i].product_id = p}
                   IN  IF at = {}
                       THEN /\ resp'.kind = "update" /\ resp'.status = 404
                            /\ reqs' = reqs /\ carts' = carts
                       ELSE \E x \in Suspended("update", u) :
                              LET new == x.items
                                  k   == CHOOSE i \in at : TRUE
                              IN  /\ Cardinality(at) = 1
                                  /\ \A i \in 1..(k - 1) : new[i] = old[i]
                                  /\ IF q = 0
                                     THEN /\ Len(new) = Len(old) - 1
                                          /\ \A i \in k..Len(new) : new[i] = old[i + 1]
                                     ELSE /\ Len(new) = Len(old)
                                          /\ new[k] = Line(p, q)
                                          /\ \A i \in (k + 1)..Len(new) : new[i] = old[i]
        /\ \A r \in InFlight :
             (update_cart_item_write(r) /\ CartsOfUser(carts, r.user) # {})
                => /\ resp'.kind = "update" /\ resp'.status = 200
                   /\ Len(carts') = Len(carts)
                   /\ carts'[FindCart(carts, r.user)].items = r.items
      ]_vars

\* C9 witness: after add(p, 1) and update(p, 0) the cart is present with no
\* lines, and a further update has been answered 404.
C9_Witness ==
    /\ resp.kind = "update" /\ resp.status = 404
    /\ HasCart(carts, resp.user)
    /\ CartOf(carts, resp.user).items = <<>>
    /\ reqs = EmptyBag

\* C10: apply_coupon with a code whose upper-cased form is in COUPONS answers
\* 200 and, whatever the state of the user's cart, leaves the user with a cart
\* whose applied_coupon is the upper-cased code.
C10_ApplyCouponStoresCode ==
    [][ \A u \in Emails, c \in CodeInputs :
          (apply_coupon(u, c) /\ Upper(c) \in CouponCodes)
             => /\ resp'.kind = "coupon" /\ resp'.status = 200
                /\ CartsOfUser(carts', u) # {}
                /\ carts'[FindCart(carts', u)].applied_coupon = Upper(c)
      ]_vars

\* C11: apply_coupon with a code whose upper-cased form is not in COUPONS
\* answers 400 and leaves every cart document as it was: the coupon applied
\* before, if any, and the items.
C11_UnknownCouponRejected ==
    [][ \A u \in Emails, c \in CodeInputs :
          (apply_coupon(u, c) /\ Upper(c) \notin CouponCodes)
             => /\ resp'.kind = "coupon" /\ resp'.user = u /\ resp'.status = 400
                /\ carts' = carts
      ]_vars

\* C11 witness: an unknown code was answered 400 for a user whose cart has
\* items and a coupon applied earlier.
C11_Witness ==
    /\ resp.kind = "coupon" /\ resp.status = 400
    /\ HasCart(carts, resp.user)
    /\ CartOf(carts, resp.user).items # <<>>
    /\ CartOf(carts, resp.user).applied_coupon \in CouponCodes

\* The sum of quantity * price, in cents, over the lines of a cart whose
\* product is in the catalog.
RECURSIVE CatalogTotal(_)
CatalogTotal(its) ==
    IF its = <<>> THEN 0
    ELSE (IF Head(its).product_id \in CatalogIds
          THEN Head(its).quantity * Price(Head(its).product_id)
          ELSE 0) + CatalogTotal(Tail(its))

\* The rate, in percent, of the coupon applied to a cart; 0 without a coupon.
RateOf(cart) ==
    IF cart.applied_coupon = NoCoupon THEN 0 ELSE COUPONS(cart.applied_coupon)

\* C12: for every cart with items, the view and the order built from it are
\* produced without an error, whatever products its lines name; the total
\* is the sum of quantity * price over the lines whose product is in the
\* catalog, discount_total = total * rate and final_total = total * (1 - rate)
\* with the rate of the applied coupon, 0 when there is none.
C12_TotalsFollowCatalogAndCoupon ==
    [][ \A u \in Emails :
          LET cart  == carts[FindCart(carts, u)]
              total == CatalogTotal(cart.items)
              rate  == RateOf(cart)
          IN  /\ (get_cart(u) /\ CartsOfUser(carts, u) # {} /\ cart.items # <<>>)
                    => /\ resp'.kind = "view" /\ resp'.status = 200
                       /\ resp'.view.coupon = cart.applied_coupon
                       /\ resp'.view.discount_total * 100 = total * rate
                       /\ resp'.view.final_total * 100 = total * (100 - rate)
              /\ (checkout(u) /\ CartsOfUser(carts, u) # {} /\ cart.items # <<>>)
                    => \E x \in Suspended("checkout", u) :
                          /\ x.order.total = total
                          /\ x.order.discount_code = cart.applied_coupon
                          /\ x.order.final_total * 100 = total * (100 - rate)
      ]_vars

\* C13: the number of cart documents of a user grows only in the write of an
\* add for that user and shrinks only in the delete of a checkout of that
\* user that has inserted its order; apply_coupon, update and remove leave
\* it as it is, and an update or remove that stores an empty items list
\* leaves the document in place with empty items.
C13_CartLifecycle ==
    [][ \A u \in Emails :
          LET before == Cardinality(CartsOfUser(carts, u))
              after  == Cardinality(CartsOfUser(carts', u))
          IN  /\ after > before
                    => \E r \in InFlight :
                          r.kind = "add" /\ r.user = u /\ add_to_cart_write(r)
              /\ after < before
                    => \E r \in InFlight :
                          /\ r.kind = "checkout" /\ r.user = u /\ checkout_delete(r)
                          /\ \E i \in 1..Len(orders) : orders[i] = r.order
              /\ \A r \in InFlight :
                    ((update_cart_item_write(r) \/ remove_from_cart_write(r))
                        /\ r.user = u /\ before > 0)
                       => /\ after = before
                          /\ r.items = <<>>
                                => carts'[FindCart(carts', u)].items = <<>>
              /\ \A c \in CodeInputs : apply_coupon(u, c) => after = before
      ]_vars

\* C13 witness: a user's cart was deleted by a checkout, a new one was created
\* by an add, and a remove has emptied it: the document is there, with no
\* items.
C13_Witness ==
    /\ resp.kind = "remove" /\ resp.status = 200
    /\ HasCart(carts, resp.user)
    /\ CartOf(carts, resp.user).items = <<>>
    /\ \E i \in 1..Len(orders) : orders[i].user_email = resp.user

\* C14: every step leaves the order documents already stored as they are, in
\* place; the collection changes only by the insert of a checkout, which adds
\* one document at the end.
C14_OrdersAppendOnly ==
    [][ /\ Len(orders') >= Len(orders)
        /\ SubSeq(orders', 1, Len(orders)) = orders
        /\ orders' # orders
              => /\ Len(orders') = Len(orders) + 1
                 /\ \E r \in InFlight : checkout_insert(r)
      ]_vars

\* C14 witness: a second checkout of a user has returned, and both of the
\* user's orders are stored.
C14_Witness ==
    /\ resp.kind = "checkout" /\ resp.status = 200
    /\ Cardinality({i \in 1..Len(orders) : orders[i].user_email = resp.user}) = 2

\* C15: view and history leave the carts, the orders and the users as they
\* are.  A view of a cart whose lines all carry well-formed product ids is
\* answered 200 and holds exactly one entry per line whose product is in the
\* catalog: a line whose product is not there is left out of the view, and
\* stays in the stored cart.
C15_ReadsHaveNoEffect ==
    [][ \A u \in Emails :
          /\ get_orders(u) => UNCHANGED <<carts, orders, users>>
          /\ get_cart(u)
                => /\ UNCHANGED <<carts, orders, users>>
                   /\ (/\ CartsOfUser(carts, u) # {}
                       /\ carts[FindCart(carts, u)].items # <<>>
                       /\ \A i \in 1..Len(carts[FindCart(carts, u)].items) :
                             carts[FindCart(carts, u)].items[i].product_id \in WellFormedIds)
                         => LET its  == carts'[FindCart(carts', u)].items
                                kept == {i \in 1..Len(its) : its[i].product_id \in CatalogIds}
                                view == resp'.view.items
                            IN  /\ resp'.status = 200
                                /\ Len(view) = Cardinality(kept)
                                /\ \A j \in 1..Len(view) : view[j].product_id \in CatalogIds
                                /\ \A i \in kept :
                                      \E j \in 1..Len(view) :
                                         /\ view[j].product_id = its[i].product_id
                                         /\ view[j].quantity = its[i].quantity
      ]_vars

\* C15 witness: a view was answered for a cart that holds a line whose
\* product is not in the catalog next to one whose product is: the view has
\* one entry, the stored cart two lines.
C15_Witness ==
    /\ resp.kind = "view" /\ resp.status = 200
    /\ Len(resp.view.items) = 1
    /\ HasCart(carts, resp.user)
    /\ Len(CartOf(carts, resp.user).items) = 2
    /\ \E i \in 1..2 : CartOf(carts, resp.user).items[i].product_id = "gone"

\* C17: no two orders were built from the same cart document.
C17_OneOrderPerCart ==
    \A i, j \in 1..Len(orders) :
        orders[i].cart_id = orders[j].cart_id => i = j

Mutations == {"add", "update", "remove"}

\* C19: the write of an add, update or remove on an existing cart is
\* answered 200 and replaces the stored items list by the list the handler
\* computed from the list it read, whatever was stored in between: a write
\* that another request made after the read is lost.
C19_LastWriterWins ==
    [][ \A r \in InFlight :
          (/\ r.kind \in Mutations /\ r.pc = "update"
           /\ \/ add_to_cart_write(r)
              \/ update_cart_item_write(r)
              \/ remove_from_cart_write(r)
           /\ CartsOfUser(carts, r.user) # {})
             => /\ resp'.kind = r.kind /\ resp'.user = r.user /\ resp'.status = 200
                /\ Len(carts') = Len(carts)
                /\ carts'[FindCart(carts, r.user)].items = r.items
                /\ r.items =
                      CASE r.kind = "add" -> AddItems(r.read, r.product_id, r.quantity)
                        [] r.kind = "update" -> UpdateItems(r.read, r.product_id, r.quantity)
                        [] OTHER -> RemoveItems(r.read, r.product_id)
      ]_vars

\* C19 witness: three requests, no checkout, one cart.  The first created the
\* cart; the other two are mutations that both read the list the first one
\* stored, and both were answered 200; the last write replaced what the
\* other had written (its response is noted "stale").
C19_Witness ==
    /\ resp.kind \in Mutations /\ resp.status = 200 /\ "stale" \in resp.note
    /\ started = 3 /\ reqs = EmptyBag /\ orders = <<>>
    /\ Len(carts) = 1 /\ carts[1].user_email = resp.user

\* C20: the order insert of a checkout appends the order and leaves every
\* cart document as it is, with the handler still short of its delete: if it
\* goes no further, the order and the cart are both stored.  A cart document
\* is deleted only by a checkout whose order is already stored.
C20_CheckoutNotTransactional ==
    [][ /\ \A r \in InFlight :
             checkout_insert(r)
                => /\ carts' = carts
                   /\ orders' = Append(orders, r.order)
                   /\ [r EXCEPT !.pc = "delete"] \in BagToSet(reqs')
                   /\ resp' = resp
        /\ Len(carts') < Len(carts)
              => \E r \in InFlight :
                    /\ checkout_delete(r)
                    /\ \E i \in 1..Len(orders) : orders[i] = r.order
      ]_vars

\* C20 witness: a checkout has inserted its order and not deleted the cart:
\* the order is stored, and so is the cart it was built from, with the items
\* and the coupon the checkout read.
C20_Witness ==
    \E r \in InFlight :
        /\ r.kind = "checkout" /\ r.pc = "delete"
        /\ \E i \in 1..Len(orders) : orders[i] = r.order
        /\ HasCart(carts, r.user)
        /\ CartOf(carts, r.user).id = r.order.cart_id
        /\ CartOf(carts, r.user).items = r.items /\ r.items # <<>>
        /\ CartOf(carts, r.user).applied_coupon = r.order.discount_code
        /\ r.order.discount_code # NoCoupon

\* C21: an add with quantity < 1 and an update with quantity < 0 are
\* answered 400; an update for a user with no cart, or for a product that is
\* not a line of the cart, and a remove for a user whose cart is absent or
\* empty, or for a product that is not a line of it, are answered 404.  Each
\* of them leaves every cart document as it is and stops there: no store
\* write follows.
C21_FailedMutationWritesNothing ==
    [][ \A u \in Emails, p \in ProductIds :
          LET none   == CartsOfUser(carts, u) = {}
              its    == carts[FindCart(carts, u)].items
              noline == \A i \in 1..Len(its) : its[i].product_id # p
              failed == carts' = carts /\ reqs' = reqs
          IN  /\ \A q \in Quantities :
                    (q < 1 /\ add_to_cart(u, p, q))
                       => resp'.kind = "add" /\ resp'.status = 400 /\ failed
              /\ \A q \in Quantities :
                    (q < 0 /\ update_cart_item(u, p, q))
                       => resp'.kind = "update" /\ resp'.status = 400 /\ failed
              /\ (none \/ noline)
                    => \A q \in Quantities :
                          (q >= 0 /\ update_cart_item(u, p, q))
                             => resp'.kind = "update" /\ resp'.status = 404 /\ failed
              /\ (none \/ its = <<>> \/ noline)
                    => (remove_from_cart(u, p)
                          => resp'.kind = "remove" /\ resp'.status = 404 /\ failed)
      ]_vars

\* C21 witness: a remove was answered 404 for a user whose cart has a line,
\* for another product, and a coupon; nothing is left to run.
C21_Witness ==
    /\ resp.kind = "remove" /\ resp.status = 404
    /\ HasCart(carts, resp.user)
    /\ Len(CartOf(carts, resp.user).items) = 1
    /\ CartOf(carts, resp.user).applied_coupon # NoCoupon
    /\ reqs = EmptyBag

\* C23: the write of an add on an existing cart, of an update and of a
\* remove leaves the applied_coupon of every cart document as it is, also
\* when it stores an empty items list; an apply_coupon answered 200 leaves
\* the items of every cart document as they are.
C23_ItemsAndCouponIndependent ==
    [][ /\ \A r \in InFlight :
             (/\ r.kind \in Mutations /\ r.pc = "update"
              /\ \/ add_to_cart_write(r)
                 \/ update_cart_item_write(r)
                 \/ remove_from_cart_write(r))
                => /\ Len(carts') = Len(carts)
                   /\ \A i \in 1..Len(carts) :
                         carts'[i].applied_coupon = carts[i].applied_coupon
        /\ \A u \in Emails, c \in CodeInputs :
             (apply_coupon(u, c) /\ resp'.status = 200)
                => /\ Len(carts') = Len(carts)
                   /\ \A i \in 1..Len(carts) : carts'[i].items = carts[i].items
      ]_vars

\* C23 witness: an update or remove has emptied the items of a cart that had
\* a coupon applied: the document has no items and still has the coupon.
C23_Witness ==
    /\ resp.kind \in {"update", "remove"} /\ resp.status = 200
    /\ HasCart(carts, resp.user)
    /\ CartOf(carts, resp.user).items = <<>>
    /\ CartOf(carts, resp.user).applied_coupon # NoCoupon

(***************************************************************************)
(* Properties of the session handlers, checked under AuthSpec.             *)
(***************************************************************************)

\* C1: once /refresh has exchanged a refresh token r1 (issued by a login) for
\* a new pair, the new refresh token is the one stored for the user, and every
\* later /refresh that presents r1 is rejected with 403 and never reaches its
\* store write.
C1_RotationInvalidatesOldToken ==
    /\ \A r \in InFlight : r.kind = "refresh" => "spent" \notin r.note
    /\ (resp.kind = "refresh" /\ "spent" \in resp.note) => resp.status = 403
    /\ (resp.kind = "refresh" /\ resp.status = 200)
          => StoredToken(users, resp.user) = resp.refresh_token

\* C2: a user has at most one active refresh token: a refresh token that a
\* later successful login of the same user has replaced is rejected by
\* /refresh with 403, and never reaches the store write.
C2_LoginInvalidatesPriorToken ==
    /\ \A r \in InFlight : r.kind = "refresh" => "superseded" \notin r.note
    /\ (resp.kind = "refresh" /\ "superseded" \in resp.note) => resp.status = 403

\* C3: after /logout has written for user u, and until the next successful
\* login of u, every /refresh call for u fails, whatever issued token it
\* presents.
C3_LogoutRevokesUntilLogin ==
    /\ \A r \in InFlight : r.kind = "refresh" => "logged_out" \notin r.note
    /\ (resp.kind = "refresh" /\ "logged_out" \in resp.note) => resp.status # 200

UsersOfEmail(us, e) == {i \in 1..Len(us) : us[i].email = e}

\* C16: a signup for an email that has a user document answers 400 and
\* inserts nothing; after every step there is at most one user document per
\* email; a login for an email that has no user document answers 401 and
\* issues no token.
C16_OneUserPerEmail ==
    [][ /\ \A e \in Emails, pw \in Passwords :
             (signup(e, pw) /\ UsersOfEmail(users, e) # {})
                => /\ resp'.kind = "signup" /\ resp'.status = 400
                   /\ users' = users /\ reqs' = reqs
        /\ \A e \in Emails : Cardinality(UsersOfEmail(users', e)) <= 1
        /\ \A e \in Emails, pw \in Passwords :
             (login(e, pw) /\ UsersOfEmail(users, e) = {})
                => /\ resp'.kind = "login" /\ resp'.status = 401
                   /\ resp'.refresh_token = NoToken
                   /\ issued' = issued /\ users' = users /\ reqs' = reqs
      ]_vars

\* C18: a refresh token is exchanged by /refresh at most once: the write of
\* a /refresh, which returns a new pair for the token it presented, never
\* happens for a token that an earlier /refresh has already exchanged.
C18_TokenExchangedAtMostOnce ==
    [][ \A r \in InFlight :
          refresh_token_update(r) => r.token \notin spent
      ]_vars

\* C22: from the write of a /logout for a user until the write of the next
\* successful /login of that user, the user's stored refresh token is empty,
\* also when a /refresh that passed its comparison before the logout writes
\* after it.
C22_LogoutStaysInEffect ==
    \A u \in Emails : u \in logged_out => StoredToken(users, u) = NoToken

====
